---- MODULE Spec2Model ----
(***************************************************************************)
(* A model of github-searcher.py: the stratified, resumable sampling of    *)
(* the GitHub Code Search API.  One process runs the script; the upstream  *)
(* API, the user's interrupt (Ctrl-C) and the user's re-invocation of the  *)
(* script are the environment.  The results database and the statistics    *)
(* file (the ledger) survive from one invocation to the next.              *)
(***************************************************************************)
EXTENDS Integers, Sequences, FiniteSets, TLC

\* ------------------------------------------------------------------ bounds

\* Largest --min-size / --max-size drawn for an invocation.
MaxSizeArg == 3
\* Largest --stratum-size drawn for an invocation.
MaxStratumArg == 2
\* Largest number of result pages the upstream serves for one search.
MaxPages == 2
\* Largest number of items on one result page.
MaxPageItems == 1
\* Largest number of invocations of the script in one behaviour.
MaxRuns == 2
\* Largest number of items the upstream lists, over all the result pages of
\* one behaviour.
MaxListed == 2

\* ------------------------------------------------------- program constants

\* Only files smaller than 384 KB are searchable (line 31).
MAX_FILE_SIZE == 393216
\* The results-per-query limit tested after the ascending pass (line 391).
RESULT_LIMIT == 1000
\* The default of the Retry-After header (line 181).
DEFAULT_RETRY_AFTER == 60
\* The "unknown" value of pop, sam, est_pop and total_sam (lines 82-90).
UNKNOWN == -1

\* --------------------------------------------------------- the environment

\* total_count values the upstream reports for a stratum.
TotalCounts == {RESULT_LIMIT, RESULT_LIMIT + 1}

\* total_count values the upstream reports for the whole range of sizes.
EstimateCounts == {RESULT_LIMIT + 500}

\* The search results the upstream knows: path and owning repository.  The
\* same repository id can be reported under two names.
ItemA == [path |-> "a", repository |-> [id |-> 1, name |-> "x"]]

ItemB == [path |-> "b", repository |-> [id |-> 1, name |-> "y"]]

ItemC == [path |-> "a", repository |-> [id |-> 2, name |-> "x"]]

Items == {ItemA, ItemB, ItemC}

\* Base64 contents a file fetch returns: one that decodes, one that does not.
Contents == {"aGk=", "!"}

\* The answers to a file fetch: the type and the transport-encoded content.
FileAnswers ==
    { [type |-> ty, content |-> c] : ty \in {"file", "symlink"}, c \in Contents }

\* A response header: absent, or present with a number of seconds.
Header(S) ==
    {[present |-> FALSE, value |-> 0]} \cup {[present |-> TRUE, value |-> v] : v \in S}

\* X-RateLimit-Reset values (a time in seconds), Retry-After values (seconds)
\* and the readings of time.time() in half seconds (21 is 10.5 s).
ResetHeaders == Header({9, 11})

RetryHeaders == Header({3})

ClockHalves == {20, 21}

\* ---------------------------------------------------------------- helpers

Min(a, b) == IF a <= b THEN a ELSE b

Max(a, b) == IF a >= b THEN a ELSE b

Last(s) == s[Len(s)]

\* All sequences over S of length at most n.
RECURSIVE SeqsUpTo(_, _)
SeqsUpTo(S, n) ==
    IF n = 0 THEN {<<>>}
    ELSE LET shorter == SeqsUpTo(S, n - 1)
         IN  shorter \cup { Append(s, x) : s \in shorter, x \in S }

\* Python's int() of a float given in halves: truncation toward zero.
IntOfHalves(h) == IF h >= 0 THEN h \div 2 ELSE -((-h) \div 2)

\* ------------------------------------------------------------------ state

VARIABLES
    \* args (lines 19-49)
    min_size, max_size, stratum_size, github_token,
    \* the upstream: whether it answers identical requests identically
    stable,
    \* the globals of lines 76-90
    strat_first, strat_last, pop, sam, est_pop, total_sam,
    \* control: where the script is, the request in flight (its URL and
    \* parameters), the request that res answers (res.url), the sleep of
    \* handle_rate_limit_error, the items of res still to be processed,
    \* and whether res.links has 'next'
    pc, req, res, t, items, links_next,
    \* the results database: the two tables and the connection
    repo, file, db_open,
    \* the statistics file: whether it exists, its data rows, the open handle
    statistics_isfile, statistics, statsfile_open,
    \* how the process ended
    exit_status, error,
    \* history: the number of this invocation, the strata the main loop has
    \* searched in it, the number of rows replayed and the number of files in
    \* the database at its start, what the upstream reported for the stratum
    \* in progress, whether the signal handler has run, how the file fetch
    \* just made ended, and the number of items the upstream has listed so far
    run, searched, start_rows, start_files, obs, interrupted, last_fetch, listed,
    \* the statistics file an uninterrupted run from scratch has written
    \* against the stable upstream, once there is one, and the table file it
    \* has left
    ref, ref_file,
    \* the insert that was applied to the store last, when the store is
    \* exercised on its own
    applied,
    \* the statements executed on the database connection since its last
    \* commit
    uncommitted

args == <<min_size, max_size, stratum_size, github_token, stable>>

globals == <<strat_first, strat_last, pop, sam, est_pop, total_sam>>

control == <<pc, req, res, t, items, links_next>>

database == <<repo, file, db_open>>

ledger == <<statistics_isfile, statistics, statsfile_open>>

ending == <<exit_status, error>>

history == <<run, searched, start_rows, start_files, obs, interrupted, last_fetch, listed, ref, ref_file,
            applied>>

vars == <<args, globals, control, database, ledger, ending, history, uncommitted>>

\* ----------------------------------------------------- argument validation

\* Lines 51-62: the configurations the script does not exit on.
Accepted(mn, mx, ss, token) ==
    /\ ~(mn < 1)
    /\ ~(mn >= mx)
    /\ ~(mx < 1)
    /\ ~(mx > MAX_FILE_SIZE)
    /\ ~(ss < 1)
    /\ token

\* ------------------------------------------------------ the stratum cursor

\* Lines 76-77.
FirstStratumFirst(mn) == mn

FirstStratumLast(mn, ss, mx) == Min(mn + ss - 1, mx)

\* Lines 413-414: the advance at the end of a loop iteration.
NextFirst(first, ss) == first + ss

\* The advance without the clipping to max_size.
NextLastUnclipped(last, ss, mx) == last + ss

NextLast(last, ss, mx) == Min(last + ss, mx)

\* Line 375: the loop condition.
LoopCondition(first, mx) == first <= mx

\* The test with the limit itself taken for above the limit.
NeedsReverseFromLimit(p) == p >= RESULT_LIMIT

\* Line 391: whether the search is repeated in reverse order.
NeedsReverse(p) == p > RESULT_LIMIT

\* The population overwritten by the total reported last.
LatestPop(p, p2) == p2

\* Lines 212 and 400: the population kept when another total is reported.
MaxPop(p, p2) == Max(p, p2)

\* ------------------------------------------------------- the results store

\* Lines 268 and 287: db.execute opens or extends the transaction.
Execute(n) == n + 1

\* A commit that leaves the transaction open.
NoCommit(n) == n

\* Lines 284 and 299 (and 359): db.commit() ends the transaction.
Commit(n) == 0

\* The test inverted: a file counts as known when it is not in the table.
unknown_file(files, item) ==
    Cardinality({f \in files : f.path = item.path /\ f.repo_id = item.repository.id}) = 0

\* Lines 301-304: whether the item's (path, repository id) is in table file.
known_file(files, item) ==
    Cardinality({f \in files : f.path = item.path /\ f.repo_id = item.repository.id}) = 1

\* The repository is not inserted.
skip_repo(repos, r) == repos

\* Lines 267-284: INSERT OR IGNORE INTO repo, repo_id being the primary key.
insert_repo(repos, r) ==
    IF \E row \in repos : row.repo_id = r.id
    THEN repos
    ELSE repos \cup {[repo_id |-> r.id, name |-> r.name]}

\* Line 255: file_id INTEGER PRIMARY KEY is the rowid, one more than the
\* largest in the table.
NextFileId(files) ==
    IF files = {} THEN 1
    ELSE 1 + CHOOSE m \in {f.file_id : f \in files} : \A f \in files : f.file_id <= m

\* Line 296: base64.b64decode(...).decode('UTF-8'), which raises on the
\* contents that are no base64 of UTF-8 text.
DecodeError == "<error>"

B64Decode(c) == CASE c = "aGk=" -> "hi" [] c = "eW8=" -> "yo" [] OTHER -> DecodeError

\* INSERT OR REPLACE in place of INSERT OR IGNORE: the row of the same
\* (path, repo_id) is deleted and the new one inserted.
replace_file(files, f, repo_id) ==
    LET others == {row \in files : ~(row.path = f.path /\ row.repo_id = repo_id)}
    IN  others \cup {[file_id |-> NextFileId(others), path |-> f.path,
                       content |-> B64Decode(f.content), repo_id |-> repo_id]}

\* Lines 286-299: INSERT OR IGNORE INTO file, (path, repo_id) being UNIQUE.
\* The content stored is the decoded one.
insert_file(files, f, repo_id) ==
    IF \E row \in files : row.path = f.path /\ row.repo_id = repo_id
    THEN files
    ELSE files \cup {[file_id |-> NextFileId(files), path |-> f.path,
                      content |-> B64Decode(f.content), repo_id |-> repo_id]}

\* ------------------------------------------------------ the ledger replay

\* The replay that leaves the samples of the rows out of the total.
ReplayTotalKept(total, row_sample) == total

\* Lines 331-335: one row of the statistics file read back into the globals.
ReplayTotal(total, row_sample) == total + row_sample

ReplayRow(g, row) ==
    [strat_first |-> row.stratum_first, strat_last |-> row.stratum_last,
     pop |-> row.population, sam |-> row.sample,
     total_sam |-> ReplayTotal(g.total_sam, row.sample)]

\* Lines 330-338: the loop over the rows.
RECURSIVE ReplayRows(_, _)
ReplayRows(g, rows) ==
    IF rows = <<>> THEN g ELSE ReplayRows(ReplayRow(g, Head(rows)), Tail(rows))

\* The resumption that takes every stratum for one size wide.
ResumeFirstByOne(first, ss) == first + 1

\* Lines 340-341: the cursor after the last row replayed.
ResumeFirst(first, ss) == first + ss

\* The last size advanced and not clipped to max_size.
ResumeLastUnclipped(last, ss, mx) == last + ss

ResumeLast(last, ss, mx) == Min(last + ss, mx)

\* Lines 339-343.
AfterReplay(g, ss, mx) ==
    IF g.pop > -1
    THEN [g EXCEPT !.strat_first = ResumeFirst(g.strat_first, ss),
                   !.strat_last = ResumeLast(g.strat_last, ss, mx),
                   !.pop = UNKNOWN, !.sam = UNKNOWN]
    ELSE g

\* Lines 325-346: the globals after the replay of the statistics file, from
\* the globals g before it (total_sam being 0, line 318).
Replay(g, isfile, rows, ss, mx) ==
    IF isfile THEN AfterReplay(ReplayRows(g, rows), ss, mx) ELSE g

\* The file opened with mode 'w': what it held is gone.
OpenForWriting(rows) == <<>>

\* Line 348: the statistics file opened with mode 'a' keeps its rows.
OpenForAppending(rows) == rows

\* Line 410: the row written for the stratum in progress.
Row(first, last, p, s) ==
    [stratum_first |-> first, stratum_last |-> last, population |-> p, sample |-> s]

\* ----------------------------------------------------------- the requests

NoItem == [path |-> "", repository |-> [id |-> 0, name |-> ""]]

\* Lines 192-195: the URL and parameters of a code search.
search(a, b, order) ==
    [kind |-> "search", a |-> a, b |-> b, order |-> order, page |-> 1, item |-> NoItem]

\* Line 210: the URL in res.links['next'] of the response to request r.
NextPage(r) == [r EXCEPT !.kind = "page", !.page = @ + 1]

\* Line 224: item['url'].
ItemUrl(item) ==
    [kind |-> "item", a |-> 0, b |-> 0, order |-> "", page |-> 0, item |-> item]

NoRequest ==
    [kind |-> "", a |-> 0, b |-> 0, order |-> "", page |-> 0, item |-> NoItem]

\* What the upstream may answer to a search or to a next-page request: the
\* total, the items of the page and whether a further page is linked.
UnstableAnswers(r, n_listed) ==
    { [total_count |-> n, items |-> it, next |-> nx] :
        n \in (IF r.kind = "est" THEN EstimateCounts ELSE TotalCounts),
        it \in SeqsUpTo(Items, Min(MaxPageItems, MaxListed - n_listed)),
        nx \in (IF r.page < MaxPages THEN BOOLEAN ELSE {FALSE}) }

\* The stable upstream: the strata that start at an odd size hold a
\* population above the limit, of which the ascending search lists ItemA and
\* then ItemB, one to a page, and the descending search the same in reverse;
\* the other strata hold ItemC alone.
StableAnswer(r) ==
    IF r.kind = "est"
    THEN [total_count |-> RESULT_LIMIT + 500, items |-> <<>>, next |-> FALSE]
    ELSE IF r.a % 2 = 1
    THEN [total_count |-> RESULT_LIMIT + 1,
          items |-> IF (r.order = "asc") = (r.page % 2 = 1) THEN <<ItemA>> ELSE <<ItemB>>,
          next |-> r.page < MaxPages]
    ELSE [total_count |-> RESULT_LIMIT, items |-> <<ItemC>>, next |-> FALSE]

SearchAnswers(r, n_listed) ==
    IF stable THEN {StableAnswer(r)} ELSE UnstableAnswers(r, n_listed)

\* The answers to the request for an item's file.
FetchAnswers ==
    IF stable THEN {[type |-> "file", content |-> "aGk="]} ELSE FileAnswers

\* Lines 177-181: the seconds handle_rate_limit_error sleeps, from the two
\* headers and the clock.
WaitSeconds(reset, retry, clock_halves) ==
    IF reset.present
    THEN IntOfHalves(2 * reset.value - clock_halves)
    ELSE IF retry.present THEN retry.value ELSE DEFAULT_RETRY_AFTER

\* The counter incremented whether or not the fetch failed.
CountAttempted(n, failed) == n + 1

\* Lines 225-230: the counter after an item whose fetch was attempted: the
\* except clause continues, past the increment.
CountFetched(n, failed) == IF failed THEN n ELSE n + 1

\* A known item left out of the count.
SkipKnown(n) == n

\* Lines 229-230: the counter after an item that was known.
CountKnown(n) == n + 1

\* What the upstream has reported for the stratum in progress: the total of
\* the ascending search, the total of the descending search, the largest total
\* of the ascending search and its further pages, the largest total of all,
\* and the searches issued.
NoObs ==
    [asc |-> UNKNOWN, desc |-> UNKNOWN, asc_peak |-> UNKNOWN, peak |-> UNKNOWN,
     passes |-> <<>>]

Larger(n, m) == IF n > m THEN n ELSE m

\* ------------------------------------------------------------- the script

Init ==
    /\ min_size \in 0..MaxSizeArg
    /\ max_size \in 0..MaxSizeArg \cup {MAX_FILE_SIZE + 1}
    /\ stratum_size \in 0..MaxStratumArg
    /\ github_token \in BOOLEAN
    /\ stable \in BOOLEAN
    /\ strat_first = 0 /\ strat_last = 0
    /\ pop = UNKNOWN /\ sam = UNKNOWN /\ est_pop = UNKNOWN /\ total_sam = UNKNOWN
    /\ pc = "args" /\ req = NoRequest /\ res = NoRequest /\ t = 0
    /\ items = <<>> /\ links_next = FALSE
    /\ repo = {} /\ file = {} /\ db_open = FALSE
    /\ statistics_isfile = FALSE /\ statistics = <<>> /\ statsfile_open = FALSE
    /\ exit_status = UNKNOWN /\ error = ""
    /\ run = 1 /\ searched = <<>> /\ start_rows = 0 /\ start_files = 0 /\ obs = NoObs
    /\ interrupted = FALSE /\ last_fetch = "" /\ listed = 0
    /\ ref = <<>> /\ ref_file = {}
    /\ applied = ""
    /\ uncommitted = 0

\* What a step of the script leaves alone unless it says otherwise.
cursor == <<strat_first, strat_last>>

stores == <<repo, file, statistics_isfile, statistics>>

\* The process is gone: what it had open is closed and its memory is lost.
Ended ==
    /\ db_open' = FALSE /\ statsfile_open' = FALSE
    /\ req' = NoRequest /\ res' = NoRequest /\ t' = 0
    /\ items' = <<>> /\ links_next' = FALSE
    /\ pop' = UNKNOWN /\ sam' = UNKNOWN
    /\ obs' = NoObs /\ last_fetch' = ""

\* An uncaught exception, or sys.exit with a message: status 1.
Crash(err) ==
    /\ pc' = "crash" /\ exit_status' = 1 /\ error' = err
    /\ Ended

\* Lines 223-226: the request for a file is made inside try, and the bare
\* except continues with the next item.
InTry == pc \in {"get", "wait"} /\ req.kind = "item"

\* Lines 225-226: except: continue.
Continue(err) ==
    /\ pc' = "page" /\ req' = NoRequest /\ t' = 0
    /\ items' = Tail(items)
    /\ sam' = CountFetched(sam, TRUE)
    /\ total_sam' = CountFetched(total_sam, TRUE)
    /\ last_fetch' = err
    /\ UNCHANGED <<res, links_next, pop, obs, exit_status, error>>

\* An exception raised inside get (lines 165-186): caught by the bare
\* except when the request is the one of line 224, uncaught otherwise.
Raise(err) ==
    IF InTry
    THEN Continue(err) /\ UNCHANGED <<db_open, statsfile_open>>
    ELSE Crash(err) /\ UNCHANGED total_sam

\* Lines 49-90, 242 and 313-316: the arguments are validated, the globals
\* set, the database opened and the search for the estimate of the overall
\* population issued.
ParseArgs ==
    /\ pc = "args"
    /\ IF Accepted(min_size, max_size, stratum_size, github_token)
       THEN /\ strat_first' = FirstStratumFirst(min_size)
            /\ strat_last' = FirstStratumLast(min_size, stratum_size, max_size)
            /\ db_open' = TRUE
            /\ pc' = "get"
            /\ req' = [search(min_size, max_size, "asc") EXCEPT !.kind = "est"]
            /\ UNCHANGED <<statsfile_open, res, t, items, links_next, pop, sam, obs,
                           last_fetch, exit_status, error>>
       ELSE /\ Crash("config")
            /\ UNCHANGED cursor
    /\ UNCHANGED <<args, stores, est_pop, total_sam, run, searched, start_rows, start_files,
                   interrupted, listed, ref, ref_file, applied, uncommitted>>

\* Lines 316-349 and 365: the estimate arrives; the statistics file is
\* replayed, or created with its header; it is opened for appending and the
\* signal handler is installed.
Estimate ==
    /\ pc = "get" /\ req.kind = "est"
    /\ \E r \in SearchAnswers(req, listed) :
        LET g0 == [strat_first |-> strat_first, strat_last |-> strat_last,
                   pop |-> pop, sam |-> sam, total_sam |-> 0]
            g == Replay(g0, statistics_isfile, statistics, stratum_size, max_size)
        IN  /\ est_pop' = r.total_count
            /\ strat_first' = g.strat_first /\ strat_last' = g.strat_last
            /\ pop' = g.pop /\ sam' = g.sam /\ total_sam' = g.total_sam
    /\ statistics_isfile' = TRUE /\ statsfile_open' = TRUE
    /\ statistics' = OpenForAppending(statistics)
    /\ start_rows' = Len(statistics)
    /\ start_files' = Cardinality(file)
    /\ pc' = "loop" /\ req' = NoRequest
    /\ UNCHANGED <<args, repo, file, db_open, res, t, items, links_next,
                   obs, last_fetch, exit_status, error, run, searched, interrupted,
                   listed, ref, ref_file, applied, uncommitted>>

\* Lines 375-377 and 422: the loop condition; the ascending search of the
\* current stratum is issued, or the script is done.
Loop ==
    /\ pc = "loop"
    /\ IF LoopCondition(strat_first, max_size)
       THEN /\ pc' = "get"
            /\ req' = search(strat_first, strat_last, "asc")
            /\ searched' = Append(searched, <<strat_first, strat_last>>)
            /\ obs' = [NoObs EXCEPT !.passes = <<search(strat_first, strat_last, "asc")>>]
            /\ UNCHANGED <<db_open, statsfile_open, res, t, items, links_next, pop,
                           sam, last_fetch, exit_status>>
       ELSE /\ pc' = "done" /\ exit_status' = 0
            /\ Ended
            /\ UNCHANGED searched
    /\ UNCHANGED <<args, stores, cursor, est_pop, total_sam, error, run, start_rows, start_files,
                   interrupted, listed, ref, ref_file, applied, uncommitted>>

\* What every answer to a search or a next-page request does (lines 207 and
\* 213): the page is handed to download_files_from_page.
PageArrives(r) ==
    /\ items' = r.items /\ links_next' = r.next
    /\ listed' = IF stable THEN listed ELSE listed + Len(r.items)
    /\ pc' = "page" /\ res' = req /\ req' = NoRequest
    /\ UNCHANGED <<args, stores, cursor, est_pop, total_sam, t, db_open,
                   statsfile_open, last_fetch, exit_status, error, run, searched,
                   start_rows, start_files, interrupted, ref, ref_file, applied, uncommitted>>

\* Lines 377-384: the ascending search answers; pop and sam are set.
Searched ==
    /\ pc = "get" /\ req.kind = "search" /\ req.order = "asc"
    /\ \E r \in SearchAnswers(req, listed) :
        /\ pop' = r.total_count
        /\ sam' = 0
        /\ obs' = [obs EXCEPT !.asc = r.total_count, !.asc_peak = r.total_count,
                              !.peak = r.total_count]
        /\ PageArrives(r)

\* Lines 393-405: the descending search answers.
SearchedReverse ==
    /\ pc = "get" /\ req.kind = "search" /\ req.order = "desc"
    /\ \E r \in SearchAnswers(req, listed) :
        /\ pop' = MaxPop(pop, r.total_count)
        /\ obs' = [obs EXCEPT !.desc = r.total_count,
                              !.peak = Larger(r.total_count, @)]
        /\ PageArrives(r)
    /\ UNCHANGED sam

\* Lines 210-213: the next page of either search answers.
NextPageFetched ==
    /\ pc = "get" /\ req.kind = "page"
    /\ \E r \in SearchAnswers(req, listed) :
        /\ pop' = MaxPop(pop, r.total_count)
        /\ obs' = [obs EXCEPT !.peak = Larger(r.total_count, @),
                              !.asc_peak = IF req.order = "asc"
                                           THEN Larger(r.total_count, @) ELSE @]
        /\ PageArrives(r)
    /\ UNCHANGED sam

\* Lines 219-222 and 229-230: the next item of the page.  A known file is
\* counted; for any other its repository is inserted and its file requested.
\* On a closed database known_file raises sqlite3.ProgrammingError.
Item ==
    /\ pc = "page" /\ items # <<>>
    /\ LET item == Head(items)
       IN  IF ~db_open
           THEN /\ Crash("ProgrammingError")
                /\ UNCHANGED <<total_sam, repo, uncommitted>>
           ELSE IF known_file(file, item)
           THEN /\ sam' = CountKnown(sam)
                /\ total_sam' = CountKnown(total_sam)
                /\ items' = Tail(items)
                /\ last_fetch' = ""
                /\ UNCHANGED <<pc, req, repo, res, t, links_next, pop, obs, db_open,
                               statsfile_open, exit_status, error, uncommitted>>
           ELSE /\ repo' = insert_repo(repo, item.repository)
                /\ uncommitted' = Commit(Execute(uncommitted))
                /\ pc' = "get" /\ req' = ItemUrl(item)
                /\ last_fetch' = ""
                /\ UNCHANGED <<items, sam, total_sam, res, t, links_next, pop, obs,
                               db_open, statsfile_open, exit_status, error>>
    /\ UNCHANGED <<args, cursor, est_pop, file, statistics_isfile, statistics, run,
                   searched, start_rows, start_files, interrupted, listed, ref, ref_file, applied>>

\* Lines 224-230: the file arrives.  One of type 'file' is decoded and
\* inserted, the decoding raising outside the try on undecodable content;
\* then the item is counted.
Fetched ==
    /\ pc = "get" /\ req.kind = "item"
    /\ \E answer \in FetchAnswers :
        LET f == [path |-> req.item.path, content |-> answer.content]
        IN  IF answer.type = "file" /\ B64Decode(answer.content) = DecodeError
            THEN /\ Crash("DecodeError")
                 /\ UNCHANGED <<total_sam, file, uncommitted>>
            ELSE /\ file' = IF answer.type = "file"
                            THEN insert_file(file, f, req.item.repository.id)
                            ELSE file
                 /\ uncommitted' = IF answer.type = "file"
                                   THEN Commit(Execute(uncommitted))
                                   ELSE uncommitted
                 /\ sam' = CountFetched(sam, FALSE)
                 /\ total_sam' = CountFetched(total_sam, FALSE)
                 /\ items' = Tail(items)
                 /\ last_fetch' = "ok"
                 /\ pc' = "page" /\ req' = NoRequest
                 /\ UNCHANGED <<res, t, links_next, pop, obs, db_open,
                                statsfile_open, exit_status, error>>
    /\ UNCHANGED <<args, cursor, est_pop, repo, statistics_isfile, statistics, run,
                   searched, start_rows, start_files, interrupted, listed, ref, ref_file, applied>>

\* A failed search or next-page request taken as the end of the stratum: the
\* row is written and the loop goes on with the next stratum.
FailedRecorded ==
    /\ pc = "get" /\ ~stable
    /\ IF req.kind \in {"search", "page"}
       THEN /\ statistics' = Append(statistics, Row(strat_first, strat_last, pop, sam))
            /\ strat_first' = NextFirst(strat_first, stratum_size)
            /\ strat_last' = NextLast(strat_last, stratum_size, max_size)
            /\ pop' = UNKNOWN /\ sam' = UNKNOWN
            /\ pc' = "loop" /\ req' = NoRequest /\ last_fetch' = ""
            /\ UNCHANGED <<res, t, items, links_next, obs, db_open, statsfile_open,
                           exit_status, error, total_sam, repo, file,
                           statistics_isfile>>
       ELSE /\ Raise("HTTPError")
            /\ UNCHANGED <<stores, cursor>>
    /\ UNCHANGED <<args, est_pop, run, searched, start_rows, start_files, interrupted, listed,
                   ref, ref_file, applied, uncommitted>>

\* Lines 168-173: a response that is neither a success nor a 403 (or no
\* response at all): raise_for_status raises.
Failed ==
    /\ pc = "get" /\ ~stable
    /\ Raise("HTTPError")
    /\ UNCHANGED <<args, stores, cursor, est_pop, run, searched, start_rows, start_files,
                   interrupted, listed, ref, ref_file, applied, uncommitted>>

\* Lines 170-171 and 176-184: a 403 arrives; handle_rate_limit_error
\* computes t and sleeps, time.sleep raising ValueError on a negative t.
RateLimited ==
    /\ pc = "get" /\ ~stable
    /\ \E reset \in ResetHeaders, retry \in RetryHeaders, clock \in ClockHalves :
        LET seconds == WaitSeconds(reset, retry, clock)
        IN  IF seconds < 0
            THEN Raise("sleep ValueError")
            ELSE /\ pc' = "wait" /\ t' = seconds
                 /\ UNCHANGED <<req, res, items, links_next, pop, sam, total_sam,
                                obs, last_fetch, db_open, statsfile_open,
                                exit_status, error>>
    /\ UNCHANGED <<args, stores, cursor, est_pop, run, searched, start_rows, start_files,
                   interrupted, listed, ref, ref_file, applied, uncommitted>>

\* Lines 184-186: the sleep is over and the request is made again.
Retry ==
    /\ pc = "wait"
    /\ pc' = "get" /\ t' = 0
    /\ UNCHANGED <<args, globals, req, res, items, links_next, database, ledger,
                   ending, history, uncommitted>>

\* Lines 208-210: the page is exhausted and links to a next one.
NextPageRequested ==
    /\ pc = "page" /\ items = <<>> /\ links_next
    /\ pc' = "get" /\ req' = NextPage(res)
    /\ last_fetch' = ""
    /\ UNCHANGED <<args, globals, res, t, items, links_next, database, ledger, ending,
                   run, searched, start_rows, start_files, obs, interrupted, listed, ref, ref_file, applied, uncommitted>>

\* Lines 391-393: the ascending pass is over, and the search is repeated in
\* reverse order when the population is above the limit.
ReverseSearch ==
    /\ pc = "page" /\ items = <<>> /\ ~links_next
    /\ res.order = "asc" /\ NeedsReverse(pop)
    /\ pc' = "get" /\ req' = search(strat_first, strat_last, "desc")
    /\ obs' = [obs EXCEPT !.passes = Append(@, search(strat_first, strat_last, "desc"))]
    /\ last_fetch' = ""
    /\ UNCHANGED <<args, globals, res, t, items, links_next, database, ledger, ending,
                   run, searched, start_rows, start_files, interrupted, listed, ref, ref_file, applied, uncommitted>>

\* Lines 410-416: the stratum is recorded and the cursor advanced.  Writing
\* to the closed statistics file raises ValueError.
Record ==
    /\ pc = "page" /\ items = <<>> /\ ~links_next
    /\ ~(res.order = "asc" /\ NeedsReverse(pop))
    /\ IF ~statsfile_open
       THEN /\ Crash("write ValueError")
            /\ UNCHANGED <<cursor, statistics>>
       ELSE /\ statistics' = Append(statistics, Row(strat_first, strat_last, pop, sam))
            /\ strat_first' = NextFirst(strat_first, stratum_size)
            /\ strat_last' = NextLast(strat_last, stratum_size, max_size)
            /\ pop' = UNKNOWN /\ sam' = UNKNOWN
            /\ pc' = "loop"
            /\ last_fetch' = ""
            /\ UNCHANGED <<req, res, t, items, links_next, obs, db_open,
                           statsfile_open, exit_status, error>>
    /\ UNCHANGED <<args, est_pop, total_sam, repo, file, statistics_isfile, run,
                   searched, start_rows, start_files, interrupted, listed, ref, ref_file, applied, uncommitted>>

\* Lines 358-365: SIGINT once the handler is installed.  The handler commits
\* and closes the database, flushes and closes the statistics file and
\* calls sys.exit(0), whose SystemExit is raised where the script stands: at
\* line 224 the bare except catches it.  On a database already closed
\* db.commit raises sqlite3.ProgrammingError instead.
signal_handler ==
    /\ pc \in {"loop", "page", "wait"} \/ (pc = "get" /\ req.kind # "est")
    /\ interrupted' = TRUE
    /\ IF ~db_open
       THEN Raise("ProgrammingError")
       ELSE \E caught \in (IF InTry THEN BOOLEAN ELSE {FALSE}) :
            IF caught
            THEN /\ Continue("SystemExit")
                 /\ db_open' = FALSE /\ statsfile_open' = FALSE
            ELSE /\ pc' = "exit" /\ exit_status' = 0
                 /\ Ended
                 /\ UNCHANGED <<total_sam, error>>
    /\ uncommitted' = IF db_open THEN Commit(uncommitted) ELSE uncommitted
    /\ UNCHANGED <<args, stores, cursor, est_pop, run, searched, start_rows, start_files, listed,
                   ref, ref_file, applied>>

\* The user runs the script again with the same arguments: a new process,
\* the database and the statistics file being what the last one left.
Restart ==
    /\ pc \in {"done", "exit", "crash"}
    /\ Accepted(min_size, max_size, stratum_size, github_token)
    /\ run < MaxRuns
    /\ run' = run + 1
    /\ strat_first' = 0 /\ strat_last' = 0
    /\ est_pop' = UNKNOWN /\ total_sam' = UNKNOWN
    /\ pc' = "args"
    /\ Ended
    /\ exit_status' = UNKNOWN /\ error' = ""
    /\ searched' = <<>> /\ start_rows' = 0 /\ start_files' = 0
    /\ interrupted' = FALSE
    /\ UNCHANGED <<args, stores, listed, ref, ref_file, applied, uncommitted>>

\* Against the stable upstream, after an uninterrupted run from scratch:
\* the user keeps a copy of the statistics file, deletes it and the
\* database, and starts over.
StartOver ==
    /\ stable /\ ref = <<>>
    /\ pc = "done" /\ run = 1
    /\ ref' = statistics /\ ref_file' = file
    /\ statistics_isfile' = FALSE /\ statistics' = <<>>
    /\ repo' = {} /\ file' = {}
    /\ strat_first' = 0 /\ strat_last' = 0
    /\ est_pop' = UNKNOWN /\ total_sam' = UNKNOWN
    /\ pc' = "args"
    /\ Ended
    /\ exit_status' = UNKNOWN /\ error' = ""
    /\ searched' = <<>> /\ start_rows' = 0 /\ start_files' = 0
    /\ interrupted' = FALSE
    /\ UNCHANGED <<args, run, listed, applied, uncommitted>>

Next ==
    \/ ParseArgs
    \/ Estimate
    \/ Loop
    \/ Searched
    \/ SearchedReverse
    \/ NextPageFetched
    \/ Item
    \/ Fetched
    \/ Failed
    \/ RateLimited
    \/ Retry
    \/ NextPageRequested
    \/ ReverseSearch
    \/ Record
    \/ signal_handler
    \/ Restart
    \/ StartOver

Spec == Init /\ [][Next]_vars

\* ------------------------------------------------------------- properties

\* The strata of an uninterrupted run, by the loop of lines 375-416 alone.
RECURSIVE StrataFrom(_, _, _, _)
StrataFrom(first, last, ss, mx) ==
    IF LoopCondition(first, mx)
    THEN <<<<first, last>>>> \o StrataFrom(NextFirst(first, ss), NextLast(last, ss, mx), ss, mx)
    ELSE <<>>

UninterruptedStrata ==
    StrataFrom(FirstStratumFirst(min_size),
               FirstStratumLast(min_size, stratum_size, max_size),
               stratum_size, max_size)

\* The stratum of the loop iteration that has just ended has been recorded.
JustRecorded == pc = "loop" /\ obs.passes # <<>>

\* C1: in a run that starts with nothing recorded, the strata the main loop
\* searches start at min_size, have first <= last, each start one above the
\* last of the one before, and, once the run is done, end at max_size.
C1_StrataCoverRange ==
    start_rows = 0 =>
        /\ searched # <<>> => searched[1][1] = min_size
        /\ \A i \in 1..Len(searched) : searched[i][1] <= searched[i][2]
        /\ \A i \in 2..Len(searched) : searched[i][1] = searched[i - 1][2] + 1
        /\ pc = "done" => searched # <<>> /\ Last(searched)[2] = max_size

\* A run from scratch that is done, whose last stratum was clipped to
\* max_size.
C1_Witness ==
    /\ pc = "done" /\ start_rows = 0 /\ run = 1
    /\ Len(searched) >= 2
    /\ Last(searched)[2] - Last(searched)[1] + 1 < stratum_size

\* The first and last size of each row of a statistics file.
Ranges(rows) == [i \in 1..Len(rows) |-> <<rows[i].stratum_first, rows[i].stratum_last>>]

\* C2: a run that starts from the rows of the first N strata of the
\* uninterrupted run searches exactly the strata that follow them, in order
\* (none when they are all there), every row it writes is the row of the next
\* stratum, and against the stable upstream the file it ends with is the one
\* the uninterrupted run has written.
C2_ResumeContinues ==
    Accepted(min_size, max_size, stratum_size, github_token) =>
        LET plan == UninterruptedStrata
        IN  /\ Len(statistics) <= Len(plan)
            /\ Ranges(statistics) = SubSeq(plan, 1, Len(statistics))
            /\ start_rows + Len(searched) <= Len(plan)
            /\ searched = SubSeq(plan, start_rows + 1, start_rows + Len(searched))
            /\ pc = "done" => start_rows + Len(searched) = Len(plan)
            /\ pc = "done" => Len(statistics) = Len(plan)
            /\ (stable /\ ref # <<>> /\ pc = "done") => statistics = ref

\* A second run, against the stable upstream whose uninterrupted ledger is
\* known, that found the first stratum recorded, searched the rest and is done.
C2_Witness ==
    /\ stable /\ ref # <<>> /\ pc = "done"
    /\ run = 2 /\ start_rows >= 1 /\ Len(searched) >= 1
    /\ stratum_size > 1

\* C3 as stated: the stratum just recorded was searched once when the total
\* reported by its ascending search was within the limit and twice when that
\* total was above it.
C3_PassesBySearchTotal ==
    JustRecorded =>
        /\ obs.asc <= RESULT_LIMIT => Len(obs.passes) = 1
        /\ obs.asc > RESULT_LIMIT => Len(obs.passes) = 2

\* C3 amended: the stratum just recorded was searched once, in ascending
\* order, when the largest total reported by the ascending search and its
\* further pages was within the limit, and twice, ascending then descending
\* over the same range, when that largest total was above the limit.
C3_PassesByAscendingPeak ==
    JustRecorded =>
        LET row == Last(statistics)
            asc == search(row.stratum_first, row.stratum_last, "asc")
            desc == search(row.stratum_first, row.stratum_last, "desc")
        IN  /\ obs.asc_peak <= RESULT_LIMIT => obs.passes = <<asc>>
            /\ obs.asc_peak > RESULT_LIMIT => obs.passes = <<asc, desc>>

\* A stratum recorded after two passes whose ascending search reported a
\* total within the limit: a further page reported more.
C3_Witness ==
    /\ JustRecorded
    /\ obs.asc <= RESULT_LIMIT /\ obs.asc_peak > RESULT_LIMIT
    /\ Len(obs.passes) = 2

\* C4 as stated: the population recorded for a stratum searched in both
\* orders is the larger of the totals of the two searches.
C4_PopulationIsMaxOfSearches ==
    (JustRecorded /\ Len(obs.passes) = 2) =>
        Last(statistics).population = Max(obs.asc, obs.desc)

\* C4 amended: the population recorded for a stratum searched in both orders
\* is the largest of all the totals reported for it, by the two searches and
\* by every further page; and while a stratum is sampled pop is the largest
\* total reported so far, so it never decreases.
C4_PopulationIsPeak ==
    /\ (JustRecorded /\ Len(obs.passes) = 2) => Last(statistics).population = obs.peak
    /\ (pc \in {"page", "get", "wait"} /\ obs.peak # UNKNOWN) => pop = obs.peak

\* A stratum recorded after two passes with a population above the totals of
\* both searches: a further page reported more than either.
C4_Witness ==
    /\ JustRecorded /\ Len(obs.passes) = 2
    /\ Last(statistics).population > Max(obs.asc, obs.desc)

\* C5 as stated: an item whose file fetch fails is not stored and is counted
\* in sam and in total_sam.
C5_FailedFetchIsCounted ==
    [][(InTry /\ pc' = "page" /\ last_fetch' \notin {"", "ok"}) =>
          (file' = file /\ sam' = sam + 1 /\ total_sam' = total_sam + 1)]_vars

\* C5 amended: an item whose file fetch fails, for whatever reason, is not
\* stored and is not counted, neither in sam nor in total_sam, and the
\* harvest goes on with the next item of the page.
C5_FailedFetchIsSkipped ==
    [][(InTry /\ pc' = "page" /\ last_fetch' \notin {"", "ok"}) =>
          /\ file' = file
          /\ sam' = sam /\ total_sam' = total_sam
          /\ items' = Tail(items)]_vars

\* The harvest has just gone on from an item whose fetch failed with an
\* error status, the item before it on the page having been counted.
C5_Witness ==
    /\ pc = "page" /\ last_fetch = "HTTPError"
    /\ db_open /\ sam = 1 /\ total_sam = 1 /\ file # {}

\* C6: once the signal handler has run, the process has ended with status 0,
\* the database and the statistics file closed, and every row written
\* before is still in the file.
C6_InterruptEndsTheRun ==
    interrupted =>
        /\ pc = "exit" /\ exit_status = 0
        /\ ~db_open /\ ~statsfile_open
        /\ Len(statistics) >= start_rows + Len(searched) - 1

\* C7: a 403 is never surfaced: neither does the run end on the error raised
\* while handling it, nor does the caller of get see the fetch fail with it.
C7_RateLimitIsNeverSurfaced ==
    /\ error # "sleep ValueError"
    /\ last_fetch # "sleep ValueError"

\* The sum of the sample column of a statistics file.
RECURSIVE SumOfSamples(_)
SumOfSamples(rows) ==
    IF rows = <<>> THEN 0 ELSE Head(rows).sample + SumOfSamples(Tail(rows))

\* C8: whenever a stratum has just been recorded (and right after the
\* replay), and when the run is done, total_sam is the sum of the sample
\* column of the statistics file, the replayed rows included.
C8_TotalIsSumOfLedger ==
    pc \in {"loop", "done"} => total_sam = SumOfSamples(statistics)

\* A resumed run that is done, with a sampled stratum among the rows it
\* replayed and another among those it wrote.
C8_Witness ==
    /\ pc = "done" /\ start_rows >= 1 /\ Len(statistics) > start_rows
    /\ \E i \in 1..start_rows : statistics[i].sample > 0
    /\ \E i \in (start_rows + 1)..Len(statistics) : statistics[i].sample > 0

\* Whether the item's identity has a row in table file, and its rows.
RowsOf(item) == {f \in file : f.path = item.path /\ f.repo_id = item.repository.id}

\* C9: an item whose (path, repository id) is in table file is not fetched
\* and not stored again, and it is counted in sam and total_sam; no identity
\* ever has two rows; and against the stable upstream, whose two searches of
\* a stratum list the same two items, the stratum is recorded with one row
\* for each item and every listing counted.
C9_KnownItemIsCountedNotFetched ==
    /\ [][(/\ pc = "page" /\ items # <<>> /\ db_open
           /\ RowsOf(Head(items)) # {}
           /\ pc' \notin {"exit", "crash"}) =>
              /\ pc' = "page" /\ req' = req /\ items' = Tail(items)
              /\ file' = file /\ repo' = repo
              /\ sam' = sam + 1 /\ total_sam' = total_sam + 1]_vars
    /\ [](\A item \in Items : Cardinality(RowsOf(item)) <= 1)
    /\ []((stable /\ JustRecorded /\ Len(obs.passes) = 2) =>
              /\ Cardinality(RowsOf(ItemA)) = 1 /\ Cardinality(RowsOf(ItemB)) = 1
              /\ Last(statistics).sample = 2 * MaxPages)

\* Against the stable upstream, in the first run: the first stratum is
\* recorded after both passes, each of the two items listed in both, with two
\* file rows in the table and four items counted.
C9_Witness ==
    /\ stable /\ JustRecorded /\ Len(obs.passes) = 2
    /\ run = 1 /\ ref = <<>> /\ Len(statistics) = 1
    /\ Cardinality(file) = 2 /\ Last(statistics).sample = 4

\* ------------------------------------------------- the store on its own

\* The records the store is exercised with.
RepoRecords == { [id |-> i, name |-> n] : i \in {1, 2}, n \in {"x", "y"} }

FileRecords == { [path |-> p, content |-> c] : p \in {"a", "b"}, c \in {"aGk=", "eW8=", "!"} }

InitStore ==
    /\ min_size = 1 /\ max_size = 2 /\ stratum_size = 1
    /\ github_token = TRUE /\ stable = FALSE
    /\ strat_first = 0 /\ strat_last = 0
    /\ pop = UNKNOWN /\ sam = UNKNOWN /\ est_pop = UNKNOWN /\ total_sam = UNKNOWN
    /\ pc = "store" /\ req = NoRequest /\ res = NoRequest /\ t = 0
    /\ items = <<>> /\ links_next = FALSE
    /\ repo = {} /\ file = {} /\ db_open = TRUE
    /\ statistics_isfile = FALSE /\ statistics = <<>> /\ statsfile_open = FALSE
    /\ exit_status = UNKNOWN /\ error = ""
    /\ run = 1 /\ searched = <<>> /\ start_rows = 0 /\ start_files = 0 /\ obs = NoObs
    /\ interrupted = FALSE /\ last_fetch = "" /\ listed = 0
    /\ ref = <<>> /\ ref_file = {}
    /\ applied = ""
    /\ uncommitted = 0

\* Lines 267-284: insert_repo is called with some repository.
InsertRepo ==
    /\ pc = "store"
    /\ \E r \in RepoRecords :
        /\ repo' = insert_repo(repo, r)
        /\ uncommitted' = Commit(Execute(uncommitted))
        /\ applied' = IF \E row \in repo : row.repo_id = r.id
                      THEN "insert_repo of a known id"
                      ELSE "insert_repo of a new id"
    /\ UNCHANGED <<args, globals, control, file, db_open, ledger, ending, run,
                   searched, start_rows, start_files, obs, interrupted, last_fetch, listed, ref, ref_file>>

\* Lines 286-299: insert_file is called with some file and repository id;
\* undecodable content raises before anything is inserted.
InsertFile ==
    /\ pc = "store"
    /\ \E f \in FileRecords, id \in {1, 2} :
        IF B64Decode(f.content) = DecodeError
        THEN /\ file' = file
             /\ uncommitted' = uncommitted
             /\ applied' = "insert_file raised"
        ELSE /\ file' = insert_file(file, f, id)
             /\ uncommitted' = Commit(Execute(uncommitted))
             /\ applied' = IF \E row \in file : row.path = f.path /\ row.repo_id = id
                           THEN "insert_file of a known identity"
                           ELSE "insert_file of a new identity"
    /\ UNCHANGED <<args, globals, control, repo, db_open, ledger, ending, run,
                   searched, start_rows, start_files, obs, interrupted, last_fetch, listed, ref, ref_file>>

NextStore == InsertRepo \/ InsertFile

StoreSpec == InitStore /\ [][NextStore]_vars

\* C10: in every state of the store, inserting any repository or any file
\* twice leaves the tables as inserting it once does, an insert keeps every
\* row there was, and an insert of an identity that is present changes
\* nothing.
C10_InsertsAreIdempotent ==
    /\ \A r \in RepoRecords :
        LET once == insert_repo(repo, r)
        IN  /\ insert_repo(once, r) = once
            /\ repo \subseteq once
            /\ (\E row \in repo : row.repo_id = r.id) => once = repo
    /\ \A f \in FileRecords, id \in {1, 2} :
        B64Decode(f.content) # DecodeError =>
            LET once == insert_file(file, f, id)
            IN  /\ insert_file(once, f, id) = once
                /\ file \subseteq once
                /\ (\E row \in file : row.path = f.path /\ row.repo_id = id) => once = file

\* Both tables hold rows, and a file whose identity was there has just been
\* inserted.
C10_Witness ==
    /\ pc = "store" /\ applied = "insert_file of a known identity"
    /\ \E row \in repo : row.name = "y"
    /\ \E row \in file : row.content = "yo" /\ row.file_id = 1
    /\ Cardinality(file) >= 2

\* C11: a search or next-page request that fails with a status other than
\* 403 ends the process with the exception: the statistics file, the two
\* tables and the strata searched are as they were, and from then on the
\* process does nothing: no row is written and no stratum searched until
\* the script is run again.
C11_SearchFailureHalts ==
    /\ [][(Failed /\ req.kind \in {"search", "page"}) =>
            /\ pc' = "crash" /\ exit_status' = 1 /\ error' = "HTTPError"
            /\ statistics' = statistics /\ repo' = repo /\ file' = file
            /\ searched' = searched]_vars
    /\ [][pc = "crash" =>
            /\ statistics' = statistics /\ repo' = repo /\ file' = file
            /\ searched' = searched \/ run' = run + 1]_vars

\* The search of the second stratum of a run, or a further page of it, has
\* failed, the row of the first stratum and a file being stored.
C11_Witness ==
    /\ pc = "crash" /\ error = "HTTPError" /\ exit_status = 1
    /\ Len(searched) = 2 /\ Len(statistics) = start_rows + 1
    /\ file # {}

\* C12: a fetched file whose content does not decode is skipped and the
\* harvest goes on: the process never ends on the decoding error.
C12_DecodeFailureIsSkipped ==
    ~(pc = "crash" /\ error = "DecodeError")

\* ------------------------------------- one run against a willing upstream

\* One run that is not interrupted, against an upstream that answers every
\* request with a success or with a 403.
LiveNext ==
    \/ ParseArgs
    \/ Estimate
    \/ Loop
    \/ Searched
    \/ SearchedReverse
    \/ NextPageFetched
    \/ Item
    \/ Fetched
    \/ RateLimited
    \/ Retry
    \/ NextPageRequested
    \/ ReverseSearch
    \/ Record

\* The script takes its next step (lines 375-416 run without waiting on
\* anything but get), the sleep of line 184 ends, and a request that is made
\* again and again is answered with a success in the end.
Fairness ==
    /\ WF_vars(ParseArgs) /\ WF_vars(Loop) /\ WF_vars(Item) /\ WF_vars(Retry)
    /\ WF_vars(NextPageRequested) /\ WF_vars(ReverseSearch) /\ WF_vars(Record)
    /\ SF_vars(Estimate) /\ SF_vars(Searched) /\ SF_vars(SearchedReverse)
    /\ SF_vars(NextPageFetched) /\ SF_vars(Fetched)

LiveSpec == Init /\ [][LiveNext]_vars /\ Fairness

\* C13: a run with accepted arguments reaches Done; strat_first grows with
\* every stratum recorded, the loop ends when strat_first is above max_size,
\* and no stratum is searched twice in the run.
C13_RunReachesDone ==
    /\ Accepted(min_size, max_size, stratum_size, github_token) => <>(pc = "done")
    /\ [][(pc = "page" /\ pc' = "loop") => strat_first' > strat_first]_vars
    /\ [][(pc = "loop" /\ pc' = "done") => strat_first > max_size]_vars
    /\ [](\A i, j \in 1..Len(searched) : searched[i] = searched[j] => i = j)

\* C14: when a row is appended to the statistics file, no statement
\* executed on the database is left uncommitted: every row inserted while
\* the stratum was harvested has been committed.
C14_StoreCommittedBeforeLedger ==
    [][Len(statistics') > Len(statistics) => uncommitted = 0]_vars

\* The first stratum of the first run has just been recorded, a repository
\* and a file having been inserted while it was harvested.
C14_Witness ==
    /\ JustRecorded /\ run = 1 /\ ref = <<>>
    /\ Len(statistics) = 1 /\ Last(statistics).sample > 0
    /\ repo # {} /\ file # {}

\* A run has replayed a statistics file with rows and has searched nothing
\* yet.
Resumed == pc = "loop" /\ searched = <<>> /\ start_rows >= 1

\* C15 as stated: the stratum a resumed run starts with begins at the last
\* size of the last row plus stratum_size and ends at the last size of the
\* last row plus 2 * stratum_size - 1, clipped to max_size.
C15_ResumeFromLastPlusSize ==
    Resumed =>
        /\ strat_first = Last(statistics).stratum_last + stratum_size
        /\ strat_last = Min(Last(statistics).stratum_last + 2 * stratum_size - 1, max_size)

\* C15 amended: it begins at the first size of the last row plus
\* stratum_size, which is one above the last size of the last row unless that
\* row was clipped, and ends at the last size of the last row plus
\* stratum_size, clipped to max_size.
C15_ResumeFromFirstPlusSize ==
    Resumed =>
        LET row == Last(statistics)
        IN  /\ strat_first = row.stratum_first + stratum_size
            /\ strat_last = Min(row.stratum_last + stratum_size, max_size)
            /\ row.stratum_last - row.stratum_first + 1 = stratum_size =>
                   strat_first = row.stratum_last + 1

\* A run resumed with stratum_size 2 whose next stratum is clipped to
\* max_size.
C15_Witness ==
    /\ Resumed /\ stratum_size = 2
    /\ strat_first <= max_size /\ strat_last = max_size
    /\ Last(statistics).stratum_last + stratum_size > max_size

\* C16: the script exits on its arguments exactly when min_size < 1,
\* min_size > max_size, max_size > 393216, stratum_size < 1 or the token is
\* missing, and then before the database or the statistics file is opened;
\* min_size = max_size is accepted.
C16_ValidationAllowsEqualSizes ==
    LET rejected == \/ min_size < 1 \/ min_size > max_size
                    \/ max_size > MAX_FILE_SIZE \/ stratum_size < 1
                    \/ ~github_token
    IN  /\ error = "config" => rejected
        /\ (run = 1 /\ pc # "args" /\ rejected) => error = "config"
        /\ (run = 1 /\ error = "config") =>
               /\ ~db_open /\ ~statsfile_open /\ ~statistics_isfile
               /\ repo = {} /\ file = {}

\* The harvest of the stratum in progress has run to its end: the last page
\* of the last pass is exhausted.
HarvestComplete ==
    /\ pc = "page" /\ items = <<>> /\ ~links_next
    /\ ~(res.order = "asc" /\ NeedsReverse(pop))

\* C17: but for the user deleting the file, every step keeps the rows of the
\* statistics file and appends at most one; a row is appended only when the
\* harvest of the stratum in progress has run to its end without an
\* interrupt, it is the row of that stratum, and the step that follows such a
\* harvest appends it; so the file holds one row for each stratum completed,
\* and none for a stratum that was interrupted or aborted.
C17_LedgerIsAppendOnly ==
    /\ [][ref' = ref =>
            /\ Len(statistics') \in {Len(statistics), Len(statistics) + 1}
            /\ SubSeq(statistics', 1, Len(statistics)) = statistics]_vars
    /\ [][Len(statistics') = Len(statistics) + 1 =>
            /\ HarvestComplete /\ ~interrupted
            /\ Last(statistics') = Row(strat_first, strat_last, pop, sam)
            /\ <<strat_first, strat_last>> = Last(searched)]_vars
    /\ [][(HarvestComplete /\ ~interrupted' /\ pc' # pc) =>
            Len(statistics') = Len(statistics) + 1]_vars
    /\ [](pc \in {"loop", "done"} => Len(statistics) = start_rows + Len(searched))
    /\ []((pc \in {"get", "wait", "page"} /\ req.kind # "est") =>
              Len(statistics) = start_rows + Len(searched) - 1)
    /\ []((pc \in {"exit", "crash"} /\ est_pop # UNKNOWN) =>
              Len(statistics) \in {start_rows + Len(searched) - 1,
                                   start_rows + Len(searched)})

\* A second run that found one row, left by a run that ended within its
\* second stratum, and has appended the row of that stratum.
C17_Witness ==
    /\ run = 2 /\ pc = "loop" /\ start_rows = 1
    /\ Len(searched) = 1 /\ Len(statistics) = 2
    /\ max_size - min_size >= 2 /\ stratum_size = 1

\* C18: whenever a 403 arrives the client goes to wait, for the reset time
\* less the current time when the reset header is there, whatever Retry-After
\* says, else for Retry-After, else for 60 s (the wait is compared in half
\* seconds); and the request is made again only from that wait.
C18_WaitIsResetMinusNow ==
    /\ [][RateLimited =>
            /\ pc' = "wait" /\ req' = req
            /\ \E reset \in ResetHeaders, retry \in RetryHeaders, clock \in ClockHalves :
                   2 * t' = IF reset.present THEN 2 * reset.value - clock
                            ELSE IF retry.present THEN 2 * retry.value
                            ELSE 2 * DEFAULT_RETRY_AFTER]_vars
    /\ [][(pc = "wait" /\ pc' = "get") => req' = req]_vars

\* C19: every row of table file has the repo_id of a row of table repo.
C19_FileRowsHaveTheirRepo ==
    \A f \in file : \E r \in repo : r.repo_id = f.repo_id

\* A file is stored with its repository, and another repository is stored
\* with no file.
C19_Witness ==
    /\ file # {}
    /\ \E r \in repo : \A f \in file : f.repo_id # r.repo_id

\* C20: against the stable upstream, once an uninterrupted run from scratch
\* has shown what it writes and the user has started over: every row in the
\* statistics file, whichever run wrote it and whether or not the harvest of
\* its stratum had been stopped and was resumed, is the row the uninterrupted
\* run wrote for that stratum; no file row is stored that the uninterrupted
\* run did not store; and a run that is done leaves the statistics file and
\* the table file the uninterrupted run left.
C20_ResumedStratumIsTheSame ==
    (stable /\ ref # <<>>) =>
        /\ Len(statistics) <= Len(ref)
        /\ \A i \in 1..Len(statistics) : statistics[i] = ref[i]
        /\ file \subseteq ref_file
        /\ pc = "done" => statistics = ref /\ file = ref_file

\* A second run, which found a file stored and no row written by the run
\* that was stopped within the first stratum, has recorded that stratum.
C20_Witness ==
    /\ stable /\ ref # <<>> /\ run = 2
    /\ start_rows = 0 /\ start_files = 1
    /\ JustRecorded /\ Len(statistics) = 1
    /\ Cardinality(file) = 2

====
